---- MODULE Spec2Model ----
(***************************************************************************)
(* Room session and message-relay engine of the chat server                *)
(* (server.js: Express + Socket.IO + SQLite).                              *)
(*                                                                         *)
(* Strings are sequences of one-character strings, so that trim(), slice() *)
(* and JavaScript truthiness are computed and not assumed.  One handler    *)
(* invocation is one step: Node runs each socket handler to completion.    *)
(***************************************************************************)
EXTENDS Integers, Sequences, FiniteSets, TLC

\* ------------------------------------------------------------------ bounds
MaxStore == 2      \* rows the messages table may hold
MaxClock == 2      \* largest value Date.now() takes

\* ------------------------------------------------------ program constants
HistoryLimit == 50
NameLimit == 48

\* ----------------------------------------------------------------- strings
\* JavaScript undefined / null: a tuple holding a token that is no character.
Null == <<"null">>
WS == {" "}
Anonymous == <<"A", "n", "o", "n", "y", "m", "o", "u", "s">>
Someone == <<"S", "o", "m", "e", "o", "n", "e">>
TypeText == <<"t", "e", "x", "t">>
TypeFile == <<"f", "i", "l", "e">>

\* !!x for a string-or-null x: null, undefined and '' are falsy.
Truthy(x) == x # Null /\ x # <<>>

\* a || b
Or(a, b) == IF Truthy(a) THEN a ELSE b

\* String.prototype.trim
RECURSIVE TrimLeft(_)
RECURSIVE TrimRight(_)
TrimLeft(s) ==
    IF Len(s) = 0 THEN s
    ELSE IF Head(s) \in WS THEN TrimLeft(Tail(s)) ELSE s

TrimRight(s) ==
    IF Len(s) = 0 THEN s
    ELSE IF s[Len(s)] \in WS THEN TrimRight(SubSeq(s, 1, Len(s) - 1)) ELSE s

\* the text taken without .trim()
NoTrim(s) == s

Trim(s) == TrimRight(TrimLeft(s))

\* String.prototype.slice(0, n)
Slice(s, n) == SubSeq(s, 1, IF Len(s) < n THEN Len(s) ELSE n)

\* Array.prototype.reverse
Reverse(s) == [i \in 1..Len(s) |-> s[Len(s) + 1 - i]]

\* ---------------------------------------------- insertion-ordered JS Set
SetHas(l, x) == \E i \in 1..Len(l) : l[i] = x
SetAdd(l, x) == IF SetHas(l, x) THEN l ELSE Append(l, x)
SetDelete(l, x) == SelectSeq(l, LAMBDA y : y # x)

\* ------------------------------------------------------- input alphabets
Sockets == {"s1", "s2"}
RoomX == <<"r", "o", "o", "m", "-", "X">>
RoomY == <<"r", "o", "o", "m", "-", "Y">>
BlankRoom == <<" ">>
UserA == <<"A">>
UserB == <<"B">>
Hello == <<"h", "e", "l", "l", "o">>
PaddedHello == <<" ">> \o Hello \o <<" ">>
Url == <<"/", "u">>

Empty == << >>
BlankName == <<" ">>
LongName == [i \in 1..NameLimit + 1 |-> "n"]

NameInputs == {Null, UserA, UserB}
\* join-room payloads {roomId, username}
JoinPayloads ==
    {[roomId |-> Null, username |-> Null],
     [roomId |-> Empty, username |-> Empty],
     [roomId |-> RoomX, username |-> BlankName],
     [roomId |-> RoomX, username |-> UserA],
     [roomId |-> RoomX, username |-> LongName]}
LeaveRoomInputs == {Null, RoomX}
TypingRoomInputs == {Null, RoomX}
TextInputs == {<<" ">>, Hello, PaddedHello}
UrlInputs == {Null, Url}
NoMeta == [type |-> Null, filename |-> Null, mime |-> Null]
TypeImage == <<"i", "m", "g">>
\* the type, filename and mime of a chat-message payload
MetaInputs ==
    {NoMeta,
     [type |-> TypeFile, filename |-> <<"f">>, mime |-> Null],
     [type |-> TypeImage, filename |-> Null, mime |-> Null]}
\* a payload that also carries an id and a created_at of the client's own
ForgedMeta == [type |-> Null, filename |-> Null, mime |-> Null,
               id |-> <<"x">>, created_at |-> MaxClock + 7]
\* 'room-' + Math.random().toString(36).slice(2, 9).toUpperCase()
MintPool == {RoomY}

VARIABLES
    rooms,        \* registry: room id -> insertion-ordered Set of usernames
    store,        \* messages table, in rowid (insertion) order
    connected,    \* socket -> "new", "open" or "closed"
    data,         \* socket -> socket.data {username, roomId}
    socketRooms,  \* socket -> socket.rooms without the socket's own room
    clock,        \* Date.now()
    history,      \* rows the last handler read with getRecentMessages
    out,          \* socket -> events delivered to it by the last handler
    acks,         \* acknowledgments returned by the last handler
    lastEv,       \* the inbound event the last handler served
    evBit,        \* history: flips on every inbound event
    joinedAs,     \* history: socket -> {<<room, name>>} joined and not left
    scen,         \* history: progress of the section 8 scenario, -1 once left
    recv          \* history: socket -> ids of the live chat-messages it received

vars == <<rooms, store, connected, data, socketRooms, clock, history, out, acks,
          lastEv, evBit, joinedAs, scen, recv>>

NoData == [username |-> Null, roomId |-> Null]
NoOut == [s \in Sockets |-> <<>>]
NoEvent == [op |-> "none", sock |-> "none", room |-> Null, name |-> Null,
            res |-> "none"]
NoRows == << >>

\* ----------------------------------------------------------- Message Store
\* One uuidv4() draw: up to renaming, a value drawn before or a new one.
NewUuid(st) == Len(st) + 1
Uuids(st) == 1..NewUuid(st)

StoreIds(st) == {st[i].id : i \in 1..Len(st)}

\* The row INSERTed by storeMessage(msg).
StoreRow(msg, now) ==
    [id |-> msg.id,
     room_id |-> msg.room_id,
     username |-> msg.username,
     content |-> msg.content,
     type |-> Or(msg.type, TypeText),
     filename |-> Or(msg.filename, Null),
     mime |-> Or(msg.mime, Null),
     created_at |-> IF msg.created_at # 0 THEN msg.created_at ELSE now]

\* a table without its PRIMARY KEY on id
StoreThrowsIoOnly(st, msg, ioFail) == ioFail

\* stmt.run throws: id TEXT PRIMARY KEY is violated, or the write is rejected.
StoreThrows(st, msg, ioFail) == ioFail \/ msg.id \in StoreIds(st)

\* the new row put before the rows of the table
storeMessageFirst(st, msg, now) == <<StoreRow(msg, now)>> \o st

storeMessage(st, msg, now) == Append(st, StoreRow(msg, now))

\* ORDER BY created_at ASC
ScanOldestFirst(st, i, j) ==
    \/ st[i].created_at < st[j].created_at
    \/ st[i].created_at = st[j].created_at /\ i < j

\* Scan of idx_messages_room_created(room_id, created_at DESC): the rows of
\* the room by created_at descending and, among equal keys, by rowid.
ScanBefore(st, i, j) ==
    \/ st[i].created_at > st[j].created_at
    \/ st[i].created_at = st[j].created_at /\ i < j

RoomRowIds(st, roomId) == {i \in 1..Len(st) : st[i].room_id = roomId}

IndexScan(st, roomId) ==
    LET ids == RoomRowIds(st, roomId)
        rank(i) == Cardinality({j \in ids : ScanBefore(st, j, i)})
    IN  [k \in 1..Cardinality(ids) |->
            st[CHOOSE i \in ids : rank(i) = k - 1]]

\* getRecentMessages without rows.reverse()
getRecentNewestFirst(st, roomId, limit) ==
    LET scan == IndexScan(st, roomId)
    IN  SubSeq(scan, 1, IF Len(scan) < limit THEN Len(scan) ELSE limit)

getRecentMessages(st, roomId, limit) ==
    LET scan == IndexScan(st, roomId)
        rows == SubSeq(scan, 1, IF Len(scan) < limit THEN Len(scan) ELSE limit)
    IN  Reverse(rows)

\* ----------------------------------------------------------- Room Registry
\* join-room without its addParticipant
addParticipantSkipped(reg, roomId, username) == reg

addParticipant(reg, roomId, username) ==
    IF roomId \in DOMAIN reg
    THEN [reg EXCEPT ![roomId] = SetAdd(@, username)]
    ELSE [r \in DOMAIN reg \cup {roomId} |->
            IF r = roomId THEN <<username>> ELSE reg[r]]

\* removeParticipant returning before its delete
removeParticipantSkipped(reg, roomId, username) == reg

\* removeParticipant without the delete of the emptied room
removeParticipantKeepEmpty(reg, roomId, username) ==
    IF roomId \notin DOMAIN reg THEN reg
    ELSE [reg EXCEPT ![roomId] = SetDelete(@, username)]

removeParticipant(reg, roomId, username) ==
    IF roomId \notin DOMAIN reg THEN reg
    ELSE LET left == SetDelete(reg[roomId], username)
         IN  IF Len(left) = 0
             THEN [r \in DOMAIN reg \ {roomId} |-> reg[r]]
             ELSE [reg EXCEPT ![roomId] = left]

listParticipants(reg, roomId) ==
    IF roomId \in DOMAIN reg THEN reg[roomId] ELSE <<>>

\* ------------------------------------------------------ Socket.IO delivery
\* an emit to every socket that is in some room
InAnyRoom(sr, roomId) == {s \in Sockets : Len(sr[s]) > 0}

\* The sockets of a Socket.IO room.
InRoom(sr, roomId) == {s \in Sockets : SetHas(sr[s], roomId)}

Deliver(o, to, e) == [s \in Sockets |-> IF s \in to THEN Append(o[s], e) ELSE o[s]]

\* socket.emit(e)
EmitSelf(o, s, e) == Deliver(o, {s}, e)
\* io.to(roomId).emit in place of socket.to(roomId).emit
EmitToAll(o, sr, s, roomId, e) == Deliver(o, InRoom(sr, roomId), e)

\* socket.to(roomId).emit(e)
EmitOthers(o, sr, s, roomId, e) == Deliver(o, InRoom(sr, roomId) \ {s}, e)
\* io.to(roomId).emit(e)
EmitRoom(o, sr, roomId, e) == Deliver(o, InRoom(sr, roomId), e)

\* end-session without its socket.leave
LeaveSkipped(sr, s, roomId) == sr

\* socket.leave(roomId)
Leave(sr, s, roomId) == [sr EXCEPT ![s] = SetDelete(@, roomId)]

\* The 'chat-message' envelope of a stored or about-to-be-stored message.
ChatEnvelope(m) ==
    [ev |-> "chat-message", id |-> m.id, username |-> m.username,
     text |-> m.content, timestamp |-> m.created_at, type |-> m.type,
     filename |-> m.filename, mime |-> m.mime]

RECURSIVE EmitHistory(_, _, _)
EmitHistory(o, s, rows) ==
    IF Len(rows) = 0 THEN o
    ELSE EmitHistory(EmitSelf(o, s, ChatEnvelope(Head(rows))), s, Tail(rows))

\* ---------------------------------------------------------------- initial
Init ==
    /\ rooms = << >>
    /\ store = << >>
    /\ connected = [s \in Sockets |-> "new"]
    /\ data = [s \in Sockets |-> NoData]
    /\ socketRooms = [s \in Sockets |-> << >>]
    /\ clock = 1
    /\ history = NoRows
    /\ out = NoOut
    /\ acks = << >>
    /\ lastEv = NoEvent
    /\ evBit = 0
    /\ joinedAs = [s \in Sockets |-> {}]
    /\ scen = 0
    /\ recv = [s \in Sockets |-> << >>]

\* --------------------------------------------------------------- handlers
\* io.on('connection'): a new socket, socket.data cleared.  A socket id is
\* never used again after its disconnect: a reconnect is another socket.
Connect(s) ==
    /\ connected[s] = "new"
    /\ connected' = [connected EXCEPT ![s] = "open"]
    /\ data' = [data EXCEPT ![s] = NoData]
    /\ socketRooms' = [socketRooms EXCEPT ![s] = << >>]
    /\ history' = NoRows
    /\ out' = NoOut
    /\ acks' = << >>
    /\ lastEv' = [NoEvent EXCEPT !.op = "connection", !.sock = s]
    /\ UNCHANGED <<rooms, store, clock>>

\* The process after an exception left a handler uncaught: it exits, every
\* connection is gone, no connection is accepted and the registry is lost.
Crashed == [s \in Sockets |-> "closed"]

\* socket.on('join-room').  The payload is destructured in the parameter list,
\* with no default and outside the try: without a payload the handler throws
\* before its body.  readFail: getRecentMessages throws inside the try (the
\* read fails, or roomId is a value the statement cannot bind).
JoinRoom(s, hasPayload, roomIdIn, usernameIn, minted, readFail) ==
    LET roomId == IF ~Truthy(roomIdIn) THEN minted ELSE roomIdIn
        name == Or(IF Truthy(usernameIn) THEN Slice(usernameIn, NameLimit)
                   ELSE usernameIn, Anonymous)
        sr == [socketRooms EXCEPT ![s] = SetAdd(@, roomId)]
        reg == addParticipant(rooms, roomId, name)
        participants == listParticipants(reg, roomId)
        o1 == EmitSelf(NoOut, s,
                [ev |-> "joined", roomId |-> roomId, participants |-> participants])
        o2 == EmitOthers(o1, sr, s, roomId,
                [ev |-> "user-joined", username |-> name,
                 participants |-> participants])
        rows == IF readFail THEN NoRows
                ELSE getRecentMessages(store, roomId, HistoryLimit)
    IN  /\ connected[s] = "open"
        /\ acks' = << >>
        /\ IF ~hasPayload
           THEN /\ connected' = Crashed
                /\ data' = [t \in Sockets |-> NoData]
                /\ socketRooms' = [t \in Sockets |-> << >>]
                /\ rooms' = << >>
                /\ history' = NoRows
                /\ out' = NoOut
                /\ lastEv' = [op |-> "join-room", sock |-> s, room |-> Null,
                              name |-> Null, res |-> "threw",
                              roomIn |-> Null, nameIn |-> Null,
                              payload |-> FALSE]
           ELSE /\ history' = rows
                /\ socketRooms' = sr
                /\ data' = [data EXCEPT ![s] = [username |-> name, roomId |-> roomId]]
                /\ rooms' = reg
                /\ out' = IF readFail
                          THEN EmitSelf(o2, s, [ev |-> "error-message",
                                                message |-> "join-room failed"])
                          ELSE EmitHistory(o2, s, rows)
                /\ lastEv' = [op |-> "join-room", sock |-> s, room |-> roomId,
                              name |-> name,
                              res |-> IF readFail THEN "readfail" ELSE "ok",
                              roomIn |-> roomIdIn, nameIn |-> usernameIn,
                              payload |-> TRUE]
                /\ UNCHANGED connected
        /\ UNCHANGED <<store, clock>>

\* socket.to(roomId).emit in place of io.to(roomId).emit
BroadcastToOthers(o, sr, s, roomId, messageData) ==
    EmitOthers(o, sr, s, roomId, ChatEnvelope(messageData))

\* io.to(roomId).emit('chat-message', ...) of handleIncomingMessage.
BroadcastMessage(o, sr, s, roomId, messageData) ==
    EmitRoom(o, sr, roomId, ChatEnvelope(messageData))

\* the catch of the store error without its return
SendReplyNoReturn(o, sr, s, roomId, messageData, threw) ==
    BroadcastMessage(
        IF threw
        THEN EmitSelf(o, s, [ev |-> "error-message", message |-> "Store failed"])
        ELSE o,
        sr, s, roomId, messageData)

\* the store error emitted with io.to(roomId) in place of socket.emit
SendReplyErrorToRoom(o, sr, s, roomId, messageData, threw) ==
    IF threw
    THEN EmitRoom(o, sr, roomId,
                  [ev |-> "error-message", message |-> "Store failed"])
    ELSE BroadcastMessage(o, sr, s, roomId, messageData)

\* What handleIncomingMessage emits once storeMessage returned or threw.
SendReply(o, sr, s, roomId, messageData, threw) ==
    IF threw
    THEN EmitSelf(o, s, [ev |-> "error-message", message |-> "Store failed"])
    ELSE BroadcastMessage(o, sr, s, roomId, messageData)

\* the session asked before the payload
ResolveSessionFirst(fromPayload, fromSession) == Or(fromSession, fromPayload)

\* msg.roomId || socket.data.roomId, msg.username || socket.data.username
Resolve(fromPayload, fromSession) == Or(fromPayload, fromSession)

\* the acknowledgment of a stored message called before the broadcast
SendStepsAckFirst(valid, threw, hasAck) ==
    LET ack == IF hasAck THEN <<"ack">> ELSE << >>
    IN  IF ~valid THEN ack
        ELSE IF threw THEN <<"store">> \o ack \o <<"emit-error">>
        ELSE <<"store">> \o ack \o <<"emit">>

\* The effects of handleIncomingMessage in the order of its statements.
SendSteps(valid, threw, hasAck) ==
    LET ack == IF hasAck THEN <<"ack">> ELSE << >>
    IN  IF ~valid THEN ack
        ELSE IF threw THEN <<"store">> \o ack \o <<"emit-error">>
        ELSE <<"store", "emit">> \o ack

\* socket.on('chat-message') / socket.on('message') -> handleIncomingMessage
HandleIncomingMessage(s, roomIdIn, textIn, usernameIn, meta, hasAck, uuid, ioFail, now) ==
    LET roomId == Resolve(roomIdIn, data[s].roomId)
        text == Trim(Or(textIn, << >>))
        username == Or(Resolve(usernameIn, data[s].username), Anonymous)
        messageData ==
            [id |-> <<"msg-", uuid>>, room_id |-> roomId, username |-> username,
             content |-> text, type |-> Or(meta.type, TypeText),
             filename |-> Or(meta.filename, Null), mime |-> Or(meta.mime, Null),
             created_at |-> now]
        threw == StoreThrows(store, messageData, ioFail)
        ack(r) == IF hasAck THEN <<r>> ELSE << >>
        valid == Truthy(roomId) /\ Truthy(text)
        ev(res) == [op |-> "chat-message", sock |-> s, room |-> roomId,
                    name |-> username, res |-> res, text |-> textIn,
                    ack |-> hasAck, roomIn |-> roomIdIn, nameIn |-> usernameIn,
                    kind |-> meta.type,
                    steps |-> SendSteps(valid, threw, hasAck)]
    IN  /\ connected[s] = "open"
        /\ IF ~valid
           THEN /\ acks' = ack([ok |-> FALSE, error |-> "Invalid payload"])
                /\ out' = NoOut
                /\ lastEv' = ev("invalid")
                /\ UNCHANGED <<store, clock>>
           ELSE /\ ~threw => Len(store) < MaxStore
                /\ clock' = now
                /\ store' = IF threw THEN store
                            ELSE storeMessage(store, messageData, now)
                /\ out' = SendReply(NoOut, socketRooms, s, roomId, messageData,
                                    threw)
                /\ acks' = IF threw THEN ack([ok |-> FALSE, error |-> "dbErr"])
                           ELSE ack([ok |-> TRUE, id |-> messageData.id])
                /\ lastEv' = ev(IF threw THEN "storefail" ELSE "ok")
        /\ history' = NoRows
        /\ UNCHANGED <<rooms, connected, data, socketRooms>>

\* socket.on('typing') and socket.on('stop-typing')
Typing(s, roomIdIn, event) ==
    LET r == Or(roomIdIn, data[s].roomId)
        username == Or(data[s].username, Someone)
    IN  /\ connected[s] = "open"
        /\ out' = IF Truthy(r)
                  THEN EmitOthers(NoOut, socketRooms, s, r,
                                  [ev |-> event, username |-> username])
                  ELSE NoOut
        /\ acks' = << >>
        /\ lastEv' = [op |-> event, sock |-> s, room |-> r, name |-> username,
                      res |-> IF Truthy(r) THEN "ok" ELSE "noop",
                      roomIn |-> roomIdIn]
        /\ history' = NoRows
        /\ UNCHANGED <<rooms, store, connected, data, socketRooms, clock>>

\* end-session with socket.data reset as on a new connection
SessionCleared(d, s) == [d EXCEPT ![s] = NoData]

\* socket.data after end-session: the handler assigns nothing to it.
SessionAfterLeave(d, s) == d

\* socket.on('end-session')
EndSession(s, roomIdIn, usernameIn) ==
    LET r == Or(roomIdIn, data[s].roomId)
        name == Or(usernameIn, data[s].username)
        sr == Leave(socketRooms, s, r)
        reg == removeParticipant(rooms, r, name)
        participants == listParticipants(reg, r)
        o1 == EmitRoom(NoOut, sr, r,
                [ev |-> "participants", participants |-> participants])
        o2 == EmitRoom(o1, sr, r,
                [ev |-> "user-left", username |-> name,
                 participants |-> participants])
    IN  /\ connected[s] = "open"
        /\ IF Truthy(r) /\ Truthy(name)
           THEN /\ socketRooms' = sr
                /\ rooms' = reg
                /\ out' = o2
           ELSE /\ out' = NoOut
                /\ UNCHANGED <<socketRooms, rooms>>
        /\ acks' = << >>
        /\ lastEv' = [op |-> "end-session", sock |-> s, room |-> r,
                      name |-> name,
                      res |-> IF Truthy(r) /\ Truthy(name) THEN "ok" ELSE "noop",
                      roomIn |-> roomIdIn, nameIn |-> usernameIn]
        /\ history' = NoRows
        /\ data' = SessionAfterLeave(data, s)
        /\ UNCHANGED <<store, connected, clock>>

\* the file payload checked for its room only
FileInvalidRoomOnly(roomId, url) == ~Truthy(roomId)

\* !roomId || !fileMsg.url
FileInvalid(roomId, url) == ~Truthy(roomId) \/ ~Truthy(url)

\* socket.on('file')
File(s, roomIdIn, usernameIn, urlIn, meta, uuid, ioFail, now) ==
    LET roomId == Or(roomIdIn, data[s].roomId)
        username == Or(Or(usernameIn, data[s].username), Anonymous)
        fileData ==
            [id |-> <<"file-", uuid>>, room_id |-> roomId, username |-> username,
             content |-> urlIn, type |-> TypeFile,
             filename |-> Or(meta.filename, Null), mime |-> Or(meta.mime, Null),
             created_at |-> now]
        ev(res) == [op |-> "file", sock |-> s, room |-> roomId,
                    name |-> username, res |-> res, url |-> urlIn]
    IN  /\ connected[s] = "open"
        /\ acks' = << >>
        /\ IF FileInvalid(roomId, urlIn)
           THEN /\ out' = EmitSelf(NoOut, s,
                            [ev |-> "error-message",
                             message |-> "Invalid file payload"])
                /\ lastEv' = ev("invalid")
                /\ UNCHANGED <<store, clock>>
           ELSE /\ clock' = now
                /\ IF StoreThrows(store, fileData, ioFail)
                   THEN /\ out' = EmitSelf(NoOut, s,
                                    [ev |-> "error-message",
                                     message |-> "File send failed"])
                        /\ lastEv' = ev("storefail")
                        /\ UNCHANGED store
                   ELSE /\ Len(store) < MaxStore
                        /\ store' = storeMessage(store, fileData, now)
                        /\ out' = EmitRoom(NoOut, socketRooms, roomId,
                                    [ev |-> "file", id |-> fileData.id,
                                     username |-> fileData.username,
                                     url |-> urlIn, filename |-> meta.filename,
                                     ts |-> fileData.created_at])
                        /\ lastEv' = ev("ok")
        /\ history' = NoRows
        /\ UNCHANGED <<rooms, connected, data, socketRooms>>

RECURSIVE DisconnectLoop(_, _, _, _, _, _)

\* the participant list read before removeParticipant
DisconnectLoopStale(rs, reg, o, sr, s, name) ==
    IF Len(rs) = 0 THEN [reg |-> reg, out |-> o]
    ELSE LET r == Head(rs)
             participants == listParticipants(reg, r)
         IN  DisconnectLoop(Tail(rs), removeParticipant(reg, r, name),
                EmitOthers(o, sr, s, r,
                    [ev |-> "user-left", username |-> name,
                     participants |-> participants]),
                sr, s, name)

\* The loop of socket.on('disconnecting') over socket.rooms.
DisconnectLoop(rs, reg, o, sr, s, name) ==
    IF Len(rs) = 0 THEN [reg |-> reg, out |-> o]
    ELSE LET r == Head(rs)
             reg1 == removeParticipant(reg, r, name)
             participants == listParticipants(reg1, r)
         IN  DisconnectLoop(Tail(rs), reg1,
                EmitOthers(o, sr, s, r,
                    [ev |-> "user-left", username |-> name,
                     participants |-> participants]),
                sr, s, name)

\* socket.on('disconnecting'), then the socket is gone.
Disconnecting(s) ==
    LET name == data[s].username
        done == DisconnectLoop(socketRooms[s], rooms, NoOut, socketRooms, s, name)
    IN  /\ connected[s] = "open"
        /\ rooms' = done.reg
        /\ out' = done.out
        /\ acks' = << >>
        /\ connected' = [connected EXCEPT ![s] = "closed"]
        /\ socketRooms' = [socketRooms EXCEPT ![s] = << >>]
        /\ data' = [data EXCEPT ![s] = NoData]
        /\ lastEv' = [op |-> "disconnecting", sock |-> s, room |-> data[s].roomId,
                      name |-> name, res |-> "ok"]
        /\ history' = NoRows
        /\ UNCHANGED <<store, clock>>

\* ------------------------------------------------------ history variables
\* Who joined which room under which name and has not left it or gone.
TrackJoined ==
    joinedAs' =
        CASE lastEv'.op = "join-room" /\ lastEv'.res = "threw" ->
                [s \in Sockets |-> {}]
          [] lastEv'.op = "join-room" /\ lastEv'.res # "threw" ->
                [joinedAs EXCEPT ![lastEv'.sock] = @ \cup {<<lastEv'.room, lastEv'.name>>}]
          [] lastEv'.op = "end-session" /\ lastEv'.res = "ok" ->
                [joinedAs EXCEPT ![lastEv'.sock] = {p \in @ : p[1] # lastEv'.room}]
          [] lastEv'.op \in {"disconnecting", "connection"} ->
                [joinedAs EXCEPT ![lastEv'.sock] = {}]
          [] OTHER -> joinedAs

\* Section 8: A joins room-X; B joins room-X; A sends hello; B disconnects.
IsEv(e, op, s, room, name) ==
    e.op = op /\ e.sock = s /\ e.room = room /\ e.name = name /\ e.res = "ok"

TrackScenario ==
    scen' =
        CASE lastEv'.op = "connection" /\ scen \in {0, 1} -> scen
          [] scen = 0 /\ IsEv(lastEv', "join-room", "s1", RoomX, UserA) -> 1
          [] scen = 1 /\ IsEv(lastEv', "join-room", "s2", RoomX, UserB) -> 2
          [] scen = 2 /\ IsEv(lastEv', "chat-message", "s1", RoomX, UserA)
                      /\ lastEv'.text = Hello -> 3
          [] scen = 3 /\ IsEv(lastEv', "disconnecting", "s2", RoomX, UserB) -> 4
          [] OTHER -> -1

\* The ids of the chat-messages each connection received from sends, in the
\* order of their delivery.
TrackRecv ==
    recv' = [s \in Sockets |->
                IF lastEv'.op = "chat-message"
                THEN LET got == SelectSeq(out'[s], LAMBDA e : e.ev = "chat-message")
                     IN  recv[s] \o [i \in 1..Len(got) |-> got[i].id]
                ELSE recv[s]]

\* ------------------------------------------------------------------ system
\* Session Router over one room: join, send, leave, disconnect, with the
\* room and the name of a send resolved from the session.
Next ==
    /\ \/ \E s \in Sockets : Connect(s)
       \/ \E s \in Sockets, n \in {UserA, UserB}, m \in MintPool :
             JoinRoom(s, TRUE, RoomX, n, m, FALSE)
       \/ \E s \in Sockets, t \in TextInputs, a \in BOOLEAN, f \in BOOLEAN,
             now \in clock..MaxClock :
             HandleIncomingMessage(s, Null, t, Null, NoMeta, a, NewUuid(store), f,
                                   now)
       \/ \E s \in Sockets : EndSession(s, Null, Null)
       \/ \E s \in Sockets : Disconnecting(s)
    /\ TrackScenario
    /\ UNCHANGED <<joinedAs, evBit, recv>>

Spec == Init /\ [][Next]_vars

\* Validation and persistence of 'chat-message' and 'file' payloads, all
\* within one tick of the clock.
NextSend ==
    /\ \/ \E s \in Sockets : Connect(s)
       \/ \E s \in Sockets, m \in MintPool : JoinRoom(s, TRUE, RoomX, UserA, m, FALSE)
       \/ \E s \in Sockets, r \in {Null, BlankRoom}, t \in {Null, Hello},
             a \in BOOLEAN, u \in Uuids(store), f \in BOOLEAN :
             HandleIncomingMessage(s, r, t, Null, ForgedMeta, a, u, f, clock)
       \/ \E s \in Sockets, r \in {Null, BlankRoom}, url \in UrlInputs,
             u \in Uuids(store), f \in BOOLEAN :
             File(s, r, Null, url, ForgedMeta, u, f, clock)
       \/ \E s \in Sockets : Disconnecting(s)
    /\ UNCHANGED <<joinedAs, evBit, scen, recv>>

SpecSend == Init /\ [][NextSend]_vars

\* Room Registry: join, leave and disconnect under any room and name.
NextPresence ==
    /\ \/ \E s \in Sockets : Connect(s)
       \/ \E s \in Sockets, n \in NameInputs, m \in MintPool :
             JoinRoom(s, TRUE, RoomX, n, m, FALSE)
       \/ \E s \in Sockets, r \in LeaveRoomInputs, n \in NameInputs :
             EndSession(s, r, n)
       \/ \E s \in Sockets, r \in TypingRoomInputs, e \in {"typing", "stop-typing"} :
             Typing(s, r, e)
       \/ \E s \in Sockets : Disconnecting(s)
    /\ TrackJoined
    /\ evBit' = 1 - evBit
    /\ UNCHANGED <<scen, recv>>

SpecPresence == Init /\ [][NextPresence]_vars

\* The join-room handler under every shape of its payload.
NextJoin ==
    /\ \/ \E s \in Sockets : Connect(s)
       \/ \E s \in Sockets, p \in BOOLEAN, j \in JoinPayloads, m \in MintPool,
             f \in BOOLEAN :
             JoinRoom(s, p, j.roomId, j.username, m, f)
       \/ \E s \in Sockets : Disconnecting(s)
    /\ UNCHANGED <<joinedAs, evBit, scen, recv>>

SpecJoin == Init /\ [][NextJoin]_vars

\* Sends of several connections to one room, as the clock advances.
NextOrder ==
    /\ \/ \E s \in Sockets : Connect(s)
       \/ \E s \in Sockets, m \in MintPool :
             JoinRoom(s, TRUE, RoomX, Null, m, FALSE)
       \/ \E s \in Sockets, r \in {Null, RoomX}, f \in BOOLEAN,
             now \in clock..MaxClock :
             HandleIncomingMessage(s, r, Hello, Null, NoMeta, FALSE,
                                   NewUuid(store), f, now)
       \/ \E s \in Sockets : EndSession(s, Null, Null)
       \/ \E s \in Sockets : Disconnecting(s)
    /\ TrackRecv
    /\ UNCHANGED <<joinedAs, evBit, scen>>

SpecOrder == Init /\ [][NextOrder]_vars

\* Sends that name their room, username and kind or leave them to the session,
\* from connections that joined, never joined or have left.
NextResolve ==
    /\ \/ \E s \in Sockets : Connect(s)
       \/ \E s \in Sockets, m \in MintPool :
             JoinRoom(s, TRUE, RoomX, UserA, m, FALSE)
       \/ \E s \in Sockets, r \in {Null, RoomX}, u \in {Null, UserB},
             meta \in MetaInputs :
             HandleIncomingMessage(s, r, Hello, u, meta, FALSE, NewUuid(store),
                                   FALSE, clock)
       \/ \E s \in Sockets :
             File(s, Null, Null, Url, NoMeta, NewUuid(store), FALSE, clock)
       \/ \E s \in Sockets : Typing(s, Null, "typing")
       \/ \E s \in Sockets : EndSession(s, Null, Null)
       \/ \E s \in Sockets : Disconnecting(s)
    /\ UNCHANGED <<joinedAs, evBit, scen, recv>>

SpecResolve == Init /\ [][NextResolve]_vars

\* The username each connection joins under in the two-room system.
NameOf == ("s1" :> UserA) @@ ("s2" :> UserB)

\* Two rooms: every handler, with connections that join one room after
\* another without leaving the first.
NextRooms ==
    /\ \/ \E s \in Sockets : Connect(s)
       \/ \E s \in Sockets, r \in {RoomX, RoomY}, m \in MintPool :
             JoinRoom(s, TRUE, r, NameOf[s], m, FALSE)
       \/ \E s \in Sockets, r \in {Null, RoomX} :
             HandleIncomingMessage(s, r, Hello, Null, NoMeta, FALSE,
                                   NewUuid(store), FALSE, clock)
       \/ \E s \in Sockets :
             File(s, Null, Null, Url, NoMeta, NewUuid(store), FALSE, clock)
       \/ \E s \in Sockets, e \in {"typing", "stop-typing"} : Typing(s, Null, e)
       \/ \E s \in Sockets, r \in {Null, RoomX} : EndSession(s, r, Null)
       \/ \E s \in Sockets : Disconnecting(s)
    /\ UNCHANGED <<joinedAs, evBit, scen, recv>>

SpecRooms == Init /\ [][NextRooms]_vars

\* Message Store read path: getRecentMessages over any content of the table.
MaxRows == 3
MaxLimit == 3
StoreRooms == {RoomX, RoomY}

StoredRow(i, roomId, at) ==
    [id |-> <<"msg-", i>>, room_id |-> roomId, username |-> UserA,
     content |-> Hello, type |-> TypeText, filename |-> Null, mime |-> Null,
     created_at |-> at]

Tables ==
    UNION { { [i \in 1..n |-> StoredRow(i, rm[i], at[i])] :
                rm \in [1..n -> StoreRooms], at \in [1..n -> 1..MaxClock] } :
            n \in 0..MaxRows }

InitStore ==
    /\ store \in Tables
    /\ rooms = << >>
    /\ connected = [s \in Sockets |-> "new"]
    /\ data = [s \in Sockets |-> NoData]
    /\ socketRooms = [s \in Sockets |-> << >>]
    /\ clock = MaxClock
    /\ history = NoRows
    /\ out = NoOut
    /\ acks = << >>
    /\ lastEv = NoEvent
    /\ evBit = 0
    /\ joinedAs = [s \in Sockets |-> {}]
    /\ scen = -1
    /\ recv = [s \in Sockets |-> << >>]

\* A call getRecentMessages(roomId, limit).
Recent(roomId, limit) ==
    /\ history' = getRecentMessages(store, roomId, limit)
    /\ lastEv' = [op |-> "getRecentMessages", sock |-> "none", room |-> roomId,
                  name |-> Null, res |-> "ok", limit |-> limit]
    /\ evBit' = 1 - evBit
    /\ UNCHANGED <<rooms, store, connected, data, socketRooms, clock, out, acks,
                   joinedAs, scen, recv>>

NextStore == \E r \in StoreRooms, l \in 0..MaxLimit : Recent(r, l)

SpecStore == InitStore /\ [][NextStore]_vars

\* ------------------------------------------------------------------ claims
Names(l) == {l[i] : i \in 1..Len(l)}
EventsOf(o, s, kinds) == {i \in 1..Len(o[s]) : o[s][i].ev \in kinds}
Events(s, kinds) == EventsOf(out, s, kinds)
IsBlank(x) == x = Null \/ \A i \in 1..Len(x) : x[i] \in WS
Member(s, roomId) ==
    connected[s] = "open" /\ \E i \in 1..Len(socketRooms[s]) : socketRooms[s][i] = roomId

\* C1: after a send or file event, every chat-message or file event that a
\* connection received carries the id of a row of the store, and when the
\* store append failed no connection received a chat-message or file event.
C1_PersistedBeforeBroadcast ==
    lastEv.op \in {"chat-message", "file"} =>
        /\ \A s \in Sockets : \A i \in Events(s, {"chat-message", "file"}) :
              \E k \in 1..Len(store) : store[k].id = out[s][i].id
        /\ lastEv.res = "storefail" =>
              \A s \in Sockets : Events(s, {"chat-message", "file"}) = {}

\* C1 witness: a store append failed while a connection was in the room.
C1_Witness ==
    /\ lastEv.op = "chat-message"
    /\ lastEv.res = "storefail"
    /\ \E s \in Sockets : Member(s, lastEv.room)

\* C2: for every room the registry's participant set is exactly the set of
\* names under which some connection joined the room and has not since left
\* it or disconnected.
C2_RegistryIsJoinedNotLeft ==
    \A r \in {RoomX, RoomY} :
        Names(listParticipants(rooms, r)) =
            {n \in {UserA, UserB, Anonymous} :
                \E s \in Sockets : <<r, n>> \in joinedAs[s]}

\* C3: the second of two consecutive identical leaves changes nothing in the
\* registry and delivers no user-left and no participants event.
C3_SecondLeaveIsNoOp ==
    [][(/\ lastEv.op = "end-session"
        /\ lastEv.res = "ok"
        /\ lastEv' = lastEv
        /\ evBit' # evBit)
       => /\ rooms' = rooms
          /\ \A s \in Sockets :
                \A i \in 1..Len(out'[s]) :
                    out'[s][i].ev \notin {"user-left", "participants"}]_vars

\* C4: after an accepted send to room R every connection joined to R, the
\* sender included, has received exactly one chat-message, carrying the id,
\* username, text and timestamp of the stored row, and no other connection
\* has received anything.
C4_BroadcastToWholeRoom ==
    (lastEv.op = "chat-message" /\ lastEv.res = "ok") =>
        LET row == store[Len(store)]
        IN  /\ row.room_id = lastEv.room
            /\ \A s \in Sockets :
                  IF Member(s, lastEv.room)
                  THEN /\ Len(out[s]) = 1
                       /\ out[s][1].ev = "chat-message"
                       /\ out[s][1].id = row.id
                       /\ out[s][1].username = row.username
                       /\ out[s][1].text = row.content
                       /\ out[s][1].timestamp = row.created_at
                  ELSE out[s] = << >>

\* C4 witness: an accepted send by a member of the room while the other
\* connection is open and outside the room.
C4_Witness ==
    /\ lastEv.op = "chat-message"
    /\ lastEv.res = "ok"
    /\ Member(lastEv.sock, lastEv.room)
    /\ \E s \in Sockets : connected[s] = "open" /\ ~Member(s, lastEv.room)

\* C5: a join to room R delivers to the joiner its joined event and then one
\* chat-message per row of recent(R, 50), each once, oldest first; no other
\* connection receives a chat-message; the store is unchanged and the
\* registry differs only by the joiner's name in R.
C5_ReplayToJoinerOnly ==
    [][lastEv'.op = "join-room" =>
        LET s == lastEv'.sock
            R == lastEv'.room
            rec == getRecentMessages(store, R, HistoryLimit)
        IN  /\ Len(out'[s]) = 1 + Len(rec)
            /\ out'[s][1].ev = "joined"
            /\ \A i \in 1..Len(rec) :
                  /\ out'[s][i + 1].ev = "chat-message"
                  /\ out'[s][i + 1].id = rec[i].id
                  /\ out'[s][i + 1].text = rec[i].content
                  /\ rec[i].room_id = R
            /\ \A i, j \in 2..Len(out'[s]) :
                  i < j => /\ out'[s][i].timestamp <= out'[s][j].timestamp
                           /\ out'[s][i].id # out'[s][j].id
            /\ {rec[i].id : i \in 1..Len(rec)} =
                  {store[k].id : k \in RoomRowIds(store, R)}
            /\ \A t \in Sockets \ {s} : EventsOf(out', t, {"chat-message"}) = {}
            /\ store' = store
            /\ DOMAIN rooms' = DOMAIN rooms \cup {R}
            /\ \A r \in DOMAIN rooms :
                  Names(rooms'[r]) =
                      Names(rooms[r]) \cup (IF r = R THEN {lastEv'.name} ELSE {})
       ]_vars

\* C5 witness: a join replayed two messages of different timestamps while
\* the other connection was in the room.
C5_Witness ==
    /\ lastEv.op = "join-room"
    /\ Len(history) = 2
    /\ history[1].created_at < history[2].created_at
    /\ \E s \in Sockets \ {lastEv.sock} : Member(s, lastEv.room)

\* C6: recent(room, limit) returns min(limit, rows of the room) rows, all of
\* that room, none twice, in non-decreasing created_at order, and no row of
\* the room left out is newer than a returned one.
C6_RecentIsNewestTail ==
    lastEv.op = "getRecentMessages" =>
        LET R == lastEv.room
            all == RoomRowIds(store, R)
            got == {k \in all : \E i \in 1..Len(history) : history[i] = store[k]}
            n == Cardinality(all)
        IN  /\ Len(history) = IF n < lastEv.limit THEN n ELSE lastEv.limit
            /\ Len(history) <= lastEv.limit
            /\ \A i \in 1..Len(history) :
                  /\ history[i].room_id = R
                  /\ \E k \in all : store[k] = history[i]
            /\ \A i, j \in 1..Len(history) :
                  i < j => /\ history[i].id # history[j].id
                           /\ history[i].created_at <= history[j].created_at
            /\ \A k \in all \ got : \A i \in 1..Len(history) :
                  store[k].created_at <= history[i].created_at

\* C6 witness: a read cut by its limit, over a table that is not in
\* created_at order and holds a row of another room.
C6_Witness ==
    /\ lastEv.op = "getRecentMessages"
    /\ lastEv.limit = 2
    /\ Len(history) = 2
    /\ Cardinality(RoomRowIds(store, lastEv.room)) = 3
    /\ store[1].created_at > store[3].created_at

\* C7: the section 8 scenario delivers exactly the events it lists.
C7_Scenario ==
    /\ (scen = 1 /\ lastEv.op = "join-room") =>
          out = [s \in Sockets |->
                   IF s = "s1"
                   THEN <<[ev |-> "joined", roomId |-> RoomX,
                           participants |-> <<UserA>>]>>
                   ELSE << >>]
    /\ (scen = 2 /\ lastEv.op = "join-room") =>
          out = [s \in Sockets |->
                   IF s = "s1"
                   THEN <<[ev |-> "user-joined", username |-> UserB,
                           participants |-> <<UserA, UserB>>]>>
                   ELSE <<[ev |-> "joined", roomId |-> RoomX,
                           participants |-> <<UserA, UserB>>]>>]
    /\ scen = 3 =>
          /\ \A s \in Sockets :
                /\ Len(out[s]) = 1
                /\ out[s][1].ev = "chat-message"
                /\ out[s][1].username = UserA
                /\ out[s][1].text = Hello
          /\ Cardinality(RoomRowIds(store, RoomX)) = 1
    /\ scen = 4 =>
          out = [s \in Sockets |->
                   IF s = "s1"
                   THEN <<[ev |-> "user-left", username |-> UserB,
                           participants |-> <<UserA>>]>>
                   ELSE << >>]

\* C7 witness: the scenario ran to its end.
C7_Witness == scen = 4

\* C8: a send whose text is empty after trimming appends nothing, delivers
\* nothing, leaves the registry alone and acknowledges, when asked to, with
\* {ok: false, error: "Invalid payload"} and nothing else.
C8_EmptyTextRejected ==
    [][(lastEv'.op = "chat-message" /\ IsBlank(lastEv'.text)) =>
        /\ store' = store
        /\ rooms' = rooms
        /\ out' = NoOut
        /\ acks' = IF lastEv'.ack
                   THEN <<[ok |-> FALSE, error |-> "Invalid payload"]>>
                   ELSE << >>
       ]_vars

\* C8 witness: a whitespace-only text with an acknowledgment, sent by a
\* member of its room.
C8_Witness ==
    /\ lastEv.op = "chat-message"
    /\ lastEv.text = <<" ">>
    /\ lastEv.ack
    /\ lastEv.res = "invalid"
    /\ Member(lastEv.sock, lastEv.room)

\* C9: a send whose resolved room id is empty after trimming, a room id of
\* whitespace included, persists nothing and broadcasts nothing.
C9_BlankRoomRejected ==
    [][(lastEv'.op = "chat-message" /\ IsBlank(lastEv'.room)) =>
        /\ store' = store
        /\ \A s \in Sockets : EventsOf(out', s, {"chat-message"}) = {}
       ]_vars

\* C10: no room is in the registry with an empty participant set.
C10_NoEmptyRoom == \A r \in DOMAIN rooms : Len(rooms[r]) > 0

\* C10 witness: the only connection of a room disconnected and the room is
\* gone from the registry.
C10_Witness ==
    /\ lastEv.op = "disconnecting"
    /\ lastEv.room = RoomX
    /\ RoomX \notin DOMAIN rooms
    /\ \A s \in Sockets : ~Member(s, RoomX)

\* C11: a join to room R delivers joined to the requester only and
\* user-joined to every other connection in R and not to the requester, both
\* with the participant list of R after the requester's name was added.
C11_JoinNotifications ==
    [][(lastEv'.op = "join-room" /\ lastEv'.res # "threw") =>
        LET s == lastEv'.sock
            R == lastEv'.room
            list == listParticipants(rooms', R)
        IN  /\ SetHas(list, lastEv'.name)
            /\ list = SetAdd(listParticipants(rooms, R), lastEv'.name)
            /\ EventsOf(out', s, {"joined"}) = {1}
            /\ out'[s][1].roomId = R
            /\ out'[s][1].participants = list
            /\ EventsOf(out', s, {"user-joined"}) = {}
            /\ \A t \in Sockets \ {s} :
                  IF Member(t, R)
                  THEN out'[t] = <<[ev |-> "user-joined",
                                    username |-> lastEv'.name,
                                    participants |-> list]>>
                  ELSE out'[t] = << >>
       ]_vars

\* C11 witness: a join to a room that another connection is in, under a name
\* new to the room.
C11_Witness ==
    /\ lastEv.op = "join-room"
    /\ lastEv.res = "ok"
    /\ Len(listParticipants(rooms, lastEv.room)) = 2
    /\ \E t \in Sockets \ {lastEv.sock} :
          /\ Member(t, lastEv.room)
          /\ EventsOf(out, t, {"user-joined"}) = {1}

\* C12: every join event leaves its connection joined to a non-empty room id
\* with its name in that room's registry set, delivers joined to it and
\* delivers no error-message to it.
C12_JoinAlwaysSucceeds ==
    [][lastEv'.op = "join-room" =>
        LET s == lastEv'.sock
        IN  /\ connected'[s] = "open"
            /\ Truthy(data'[s].roomId)
            /\ SetHas(socketRooms'[s], data'[s].roomId)
            /\ SetHas(listParticipants(rooms', data'[s].roomId),
                      data'[s].username)
            /\ EventsOf(out', s, {"joined"}) # {}
            /\ EventsOf(out', s, {"error-message"}) = {}
       ]_vars

\* C13: a join records, in the session and in the registry, the supplied
\* username cut to its first 48 characters, or "Anonymous" when the supplied
\* username is absent, empty or whitespace only; no name in the registry is
\* longer than 48 characters.
C13_NameSanitized ==
    [][(lastEv'.op = "join-room" /\ lastEv'.res # "threw") =>
        LET s == lastEv'.sock
            expected == IF IsBlank(lastEv'.nameIn) THEN Anonymous
                        ELSE Slice(lastEv'.nameIn, NameLimit)
        IN  /\ data'[s].username = expected
            /\ SetHas(listParticipants(rooms', lastEv'.room), expected)
            /\ \A r \in DOMAIN rooms' : \A i \in 1..Len(rooms'[r]) :
                  Len(rooms'[r][i]) <= NameLimit
       ]_vars

\* C14: a leave by a connection joined to room R removes the username from
\* R's registry set, and the participants and user-left events, carrying the
\* participant list without that username, reach every connection remaining
\* in R, in that order, and reach neither the leaver nor anyone else.
C14_LeaveNotifiesRemaining ==
    [][(/\ lastEv'.op = "end-session"
        /\ lastEv'.res = "ok"
        /\ Member(lastEv'.sock, lastEv'.room)) =>
        LET s == lastEv'.sock
            R == lastEv'.room
            n == lastEv'.name
            list == listParticipants(rooms', R)
        IN  /\ ~SetHas(list, n)
            /\ list = SetDelete(listParticipants(rooms, R), n)
            /\ ~SetHas(socketRooms'[s], R)
            /\ out'[s] = << >>
            /\ \A t \in Sockets \ {s} :
                  IF Member(t, R)
                  THEN out'[t] = <<[ev |-> "participants", participants |-> list],
                                   [ev |-> "user-left", username |-> n,
                                    participants |-> list]>>
                  ELSE out'[t] = << >>
       ]_vars

\* C14 witness: a connection left the room of its session under the name of
\* its session, and the member that remains received both events.
C14_Witness ==
    /\ lastEv.op = "end-session"
    /\ lastEv.res = "ok"
    /\ data[lastEv.sock].roomId = lastEv.room
    /\ data[lastEv.sock].username = lastEv.name
    /\ ~Member(lastEv.sock, lastEv.room)
    /\ \E t \in Sockets \ {lastEv.sock} :
          /\ Member(t, lastEv.room)
          /\ Len(out[t]) = 2
          /\ out[t][2].participants = <<data[t].username>>
          /\ data[t].username # lastEv.name

\* C15: a disconnect removes the session's username from the registry of
\* every room the connection was in, every remaining member of such a room
\* receives user-left with the updated list, and afterwards no registry set
\* holds a name that only the disconnected connection had added.
C15_DisconnectCleansRegistry ==
    [][lastEv'.op = "disconnecting" =>
        LET s == lastEv'.sock
        IN  /\ \A i \in 1..Len(socketRooms[s]) :
                  LET r == socketRooms[s][i]
                  IN  /\ ~SetHas(listParticipants(rooms', r), data[s].username)
                      /\ \A t \in Sockets \ {s} :
                            Member(t, r) =>
                               \E k \in EventsOf(out', t, {"user-left"}) :
                                  /\ out'[t][k].username = data[s].username
                                  /\ out'[t][k].participants =
                                         listParticipants(rooms', r)
            /\ \A p \in joinedAs[s] :
                  (\A t \in Sockets \ {s} : p \notin joinedAs[t]) =>
                      ~SetHas(listParticipants(rooms', p[1]), p[2])
       ]_vars

\* C16: every connection is in at most one room, and a join to a room
\* delivers events only to connections whose session room is that room.
C16_AtMostOneRoom ==
    /\ \A s \in Sockets : Len(socketRooms[s]) <= 1
    /\ (lastEv.op = "join-room" /\ lastEv.res # "threw") =>
          \A t \in Sockets \ {lastEv.sock} :
              out[t] # << >> => data[t].roomId = lastEv.room

\* C20: a typing or stop-typing event reaches every connection of the
\* resolved room but the sender, once, and nobody else; it returns no
\* acknowledgment, leaves the store and the registry unchanged, and delivers
\* nothing when no room is resolved.
C20_TypingRelay ==
    [][lastEv'.op \in {"typing", "stop-typing"} =>
        LET s == lastEv'.sock
            R == lastEv'.room
        IN  /\ store' = store
            /\ rooms' = rooms
            /\ acks' = << >>
            /\ out'[s] = << >>
            /\ \A t \in Sockets \ {s} :
                  IF Truthy(R) /\ Member(t, R)
                  THEN /\ Len(out'[t]) = 1
                       /\ out'[t][1].ev = lastEv'.op
                  ELSE out'[t] = << >>
       ]_vars

\* C20 witness: a member of a room sent typing and the other member of the
\* room received it.
C20_Witness ==
    /\ lastEv.op = "typing"
    /\ Member(lastEv.sock, lastEv.room)
    /\ \E t \in Sockets \ {lastEv.sock} :
          Member(t, lastEv.room) /\ Len(out[t]) = 1

\* C17: when the store append of a send or file event fails, the sender
\* alone receives one error-message, a send that supplied an acknowledgment
\* gets {ok: false, error} and nothing else is acknowledged, no other
\* connection receives anything, and the store and the registry are as
\* before.
C17_StoreFailureToSenderOnly ==
    [][(lastEv'.op \in {"chat-message", "file"} /\ lastEv'.res = "storefail") =>
        LET s == lastEv'.sock
        IN  /\ store' = store
            /\ rooms' = rooms
            /\ Len(out'[s]) = 1
            /\ out'[s][1].ev = "error-message"
            /\ \A t \in Sockets \ {s} : out'[t] = << >>
            /\ acks' = IF lastEv'.op = "chat-message" /\ lastEv'.ack
                       THEN <<[ok |-> FALSE, error |-> "dbErr"]>>
                       ELSE << >>
       ]_vars

\* C17 witness: the append of a send with an acknowledgment failed while the
\* sender and the other connection were both in the room.
C17_Witness ==
    /\ lastEv.op = "chat-message"
    /\ lastEv.res = "storefail"
    /\ lastEv.ack
    /\ \A s \in Sockets : Member(s, lastEv.room)

\* C18: an accepted send or file event appends exactly one row, whose id and
\* created_at are the server's and not the payload's; every other step leaves
\* the store as it was; rows are never changed or removed; no two rows share
\* an id.
C18_AppendOnlyUniqueIds ==
    [][/\ Len(store') >= Len(store)
       /\ SubSeq(store', 1, Len(store)) = store
       /\ IF lastEv'.op \in {"chat-message", "file"} /\ lastEv'.res = "ok"
          THEN /\ Len(store') = Len(store) + 1
               /\ store'[Len(store')].created_at = clock'
               /\ store'[Len(store')].created_at # ForgedMeta.created_at
               /\ store'[Len(store')].id # ForgedMeta.id
               /\ store'[Len(store')].id[2] \in Uuids(store)
          ELSE store' = store
       /\ \A i, j \in 1..Len(store') :
             i # j => store'[i].id # store'[j].id
      ]_vars

\* C18 witness: the store holds two rows of the same kind, the second just
\* appended.
C18_Witness ==
    /\ Len(store) = 2
    /\ lastEv.op \in {"chat-message", "file"}
    /\ lastEv.res = "ok"
    /\ store[1].id[1] = store[2].id[1]

\* C19: an accepted send is persisted after every send accepted before it,
\* with a created_at not smaller than theirs, and every connection receives
\* the chat-messages of sends in the order in which they are in the store.
C19_OrderPreserved ==
    [][/\ (lastEv'.op = "chat-message" /\ lastEv'.res = "ok") =>
             /\ SubSeq(store', 1, Len(store)) = store
             /\ Len(store') = Len(store) + 1
             /\ \A k \in 1..Len(store) :
                   store[k].created_at <= store'[Len(store')].created_at
       /\ \A s \in Sockets : \A a, b \in 1..Len(recv'[s]) :
             a < b =>
                \E i, j \in 1..Len(store') :
                   /\ i < j
                   /\ store'[i].id = recv'[s][a]
                   /\ store'[j].id = recv'[s][b]
                   /\ store'[i].created_at <= store'[j].created_at
      ]_vars

\* C19 witness: both connections received the same two messages, sent at
\* different times.
C19_Witness ==
    /\ Len(store) = 2
    /\ store[1].created_at < store[2].created_at
    /\ \A s \in Sockets : Len(recv[s]) = 2
    /\ lastEv.op = "chat-message"
    /\ lastEv.res = "ok"

\* C21: a file event whose resolved room id or whose url is missing persists
\* nothing, leaves the registry alone and delivers one error-message to the
\* sender and nothing to anyone else.
C21_InvalidFileRejected ==
    [][(/\ lastEv'.op = "file"
        /\ (~Truthy(lastEv'.room) \/ ~Truthy(lastEv'.url))) =>
        LET s == lastEv'.sock
        IN  /\ store' = store
            /\ rooms' = rooms
            /\ Len(out'[s]) = 1
            /\ out'[s][1].ev = "error-message"
            /\ \A t \in Sockets \ {s} : out'[t] = << >>
       ]_vars

\* C21 witness: a member of a room sent a file event without url while the
\* other connection was in the room too.
C21_Witness ==
    /\ lastEv.op = "file"
    /\ lastEv.url = Null
    /\ Truthy(lastEv.room)
    /\ lastEv.res = "invalid"
    /\ \A s \in Sockets : Member(s, lastEv.room)

\* C22: an inbound event whose payload is absent leaves the server running:
\* every connection stays as it was, and the registry, the store and what
\* the other connections receive are as if the event had not been sent.
C22_BadPayloadIsolated ==
    [][(lastEv'.op = "join-room" /\ ~lastEv'.payload) =>
        /\ \A t \in Sockets : connected'[t] = connected[t]
        /\ \A t \in Sockets \ {lastEv'.sock} :
              /\ out'[t] = << >>
              /\ socketRooms'[t] = socketRooms[t]
              /\ data'[t] = data[t]
        /\ store' = store
        /\ rooms' = rooms
       ]_vars

\* C23: a send takes its room id and its username from the payload, from
\* the session where the payload has none, and "Anonymous" for a username
\* found in neither; a valid send is then stored under that room and username
\* and delivered to the connections in that room and to no one else, whether
\* or not the sender ever joined the room.
C23_PayloadBeforeSession ==
    [][lastEv'.op = "chat-message" =>
        LET s == lastEv'.sock
            R == IF Truthy(lastEv'.roomIn) THEN lastEv'.roomIn
                 ELSE data[s].roomId
            n == IF Truthy(lastEv'.nameIn) THEN lastEv'.nameIn
                 ELSE IF Truthy(data[s].username) THEN data[s].username
                 ELSE Anonymous
            row == store'[Len(store')]
        IN  /\ lastEv'.room = R
            /\ lastEv'.name = n
            /\ (Truthy(R) /\ ~IsBlank(lastEv'.text)
                          /\ lastEv'.res # "storefail") =>
                  /\ lastEv'.res = "ok"
                  /\ Len(store') = Len(store) + 1
                  /\ row.room_id = R
                  /\ row.username = n
                  /\ \A t \in Sockets :
                        IF Member(t, R)
                        THEN /\ Len(out'[t]) = 1
                             /\ out'[t][1].ev = "chat-message"
                             /\ out'[t][1].id = row.id
                             /\ out'[t][1].username = n
                        ELSE out'[t] = << >>
       ]_vars

\* C23 witness: a connection that never joined sent to room-X under the name
\* B, and a member of room-X received the message.
C23_Witness ==
    /\ lastEv.op = "chat-message"
    /\ lastEv.res = "ok"
    /\ data[lastEv.sock].roomId = Null
    /\ lastEv.roomIn = RoomX
    /\ lastEv.nameIn = UserB
    /\ store[Len(store)].room_id = RoomX
    /\ \E t \in Sockets \ {lastEv.sock} :
          /\ Member(t, RoomX)
          /\ Len(out[t]) = 1
          /\ out[t][1].username = UserB

\* C27: every row of the store has kind text or file, with an id that
\* begins with msg- for text and with file- for file.
C27_KindAndIdPrefix ==
    \A k \in 1..Len(store) :
        /\ store[k].type \in {TypeText, TypeFile}
        /\ store[k].type = TypeText => store[k].id[1] = "msg-"
        /\ store[k].type = TypeFile => store[k].id[1] = "file-"

\* C29: a leave keeps the session's room and username; a later send or
\* typing event without room id from a connection that left room R resolves
\* to R, reaches the members of R and not the sender, and the send is stored
\* under R.
C29_LeaveKeepsSession ==
    [][/\ lastEv'.op = "end-session" => data' = data
       /\ (/\ lastEv'.op \in {"chat-message", "typing"}
           /\ lastEv'.roomIn = Null
           /\ Truthy(data[lastEv'.sock].roomId)
           /\ ~Member(lastEv'.sock, data[lastEv'.sock].roomId)) =>
             LET s == lastEv'.sock
                 R == data[s].roomId
             IN  /\ lastEv'.room = R
                 /\ lastEv'.res = "ok"
                 /\ out'[s] = << >>
                 /\ \A t \in Sockets \ {s} :
                       IF Member(t, R)
                       THEN /\ Len(out'[t]) = 1
                            /\ out'[t][1].ev = lastEv'.op
                       ELSE out'[t] = << >>
                 /\ lastEv'.op = "chat-message" =>
                       /\ Len(store') = Len(store) + 1
                       /\ store'[Len(store')].room_id = R
      ]_vars

\* C29 witness: a connection that left its room sent a message without room
\* id, and the member still in the room received it.
C29_Witness ==
    /\ lastEv.op = "chat-message"
    /\ lastEv.res = "ok"
    /\ lastEv.roomIn = Null
    /\ data[lastEv.sock].roomId = lastEv.room
    /\ ~Member(lastEv.sock, lastEv.room)
    /\ out[lastEv.sock] = << >>
    /\ \E t \in Sockets \ {lastEv.sock} :
          Member(t, lastEv.room) /\ Len(out[t]) = 1

\* C24: a send that supplied an acknowledgment gets exactly one: {ok: true,
\* id} exactly when the message was stored, with the id of the stored and
\* broadcast message and after the broadcast, and {ok: false, error}
\* otherwise; a send that supplied none gets none.
C24_OneAcknowledgment ==
    [][lastEv'.op = "chat-message" =>
        LET steps == lastEv'.steps
            at(x) == {i \in 1..Len(steps) : steps[i] = x}
        IN  IF lastEv'.ack
            THEN /\ Len(acks') = 1
                 /\ Cardinality(at("ack")) = 1
                 /\ acks'[1].ok <=> Len(store') = Len(store) + 1
                 /\ acks'[1].ok <=> lastEv'.res = "ok"
                 /\ acks'[1].ok =>
                       /\ acks'[1].id = store'[Len(store')].id
                       /\ \A t \in Sockets :
                             \A i \in EventsOf(out', t, {"chat-message"}) :
                                out'[t][i].id = acks'[1].id
                       /\ \A i \in at("emit") : \A j \in at("ack") : i < j
                       /\ at("emit") # {}
                 /\ ~acks'[1].ok =>
                       /\ "error" \in DOMAIN acks'[1]
                       /\ store' = store
            ELSE /\ acks' = << >>
                 /\ at("ack") = {}
       ]_vars

\* C24 witness: a stored send was acknowledged with its id while the sender
\* and the other connection, both in the room, received the broadcast.
C24_Witness ==
    /\ lastEv.op = "chat-message"
    /\ lastEv.ack
    /\ Len(acks) = 1
    /\ acks[1].ok
    /\ \A s \in Sockets : Member(s, lastEv.room) /\ Len(out[s]) = 1

\* C25: messages of a room with the same created_at come back from
\* recent(room, limit) in the order of their insertion, and those cut by the
\* limit are the earliest inserted of them.
C25_TiesInInsertionOrder ==
    lastEv.op = "getRecentMessages" =>
        LET pos(row) == CHOOSE k \in 1..Len(store) : store[k] = row
            got == {pos(history[i]) : i \in 1..Len(history)}
        IN  /\ \A i, j \in 1..Len(history) :
                  (i < j /\ history[i].created_at = history[j].created_at) =>
                      pos(history[i]) < pos(history[j])
            /\ \A k \in RoomRowIds(store, lastEv.room) \ got : \A g \in got :
                  store[k].created_at = store[g].created_at => k < g

\* C26: a message replayed to a joiner right after its live broadcast arrives
\* under the event name and with the payload it had in the live broadcast.
C26_ReplaySameAsLive ==
    [][(/\ lastEv.op \in {"chat-message", "file"}
        /\ lastEv.res = "ok"
        /\ lastEv'.op = "join-room"
        /\ lastEv'.res = "ok"
        /\ lastEv'.room = lastEv.room) =>
        \A t \in Sockets : \A i \in EventsOf(out, t, {"chat-message", "file"}) :
            \E k \in 1..Len(out'[lastEv'.sock]) :
                out'[lastEv'.sock][k] = out[t][i]
       ]_vars

\* C28: every name in a room's registry set is the session username of a
\* live connection that is in the room, and once every connection is gone no
\* room is left in the registry.
C28_NamesHaveLiveHolders ==
    /\ \A r \in DOMAIN rooms : \A i \in 1..Len(rooms[r]) :
          \E s \in Sockets : Member(s, r) /\ data[s].username = rooms[r][i]
    /\ (\A s \in Sockets : connected[s] = "closed") => DOMAIN rooms = {}

\* C30: a leave resolves its room and username from the payload and from
\* the session only where the payload has none; the name is removed from the
\* room's registry set and user-left for it reaches the members of the room,
\* and no other connection's membership or session changes, whoever holds
\* the name.
C30_LeaveUnchecked ==
    [][lastEv'.op = "end-session" =>
        LET s == lastEv'.sock
            R == IF Truthy(lastEv'.roomIn) THEN lastEv'.roomIn
                 ELSE data[s].roomId
            n == IF Truthy(lastEv'.nameIn) THEN lastEv'.nameIn
                 ELSE data[s].username
            list == listParticipants(rooms', R)
        IN  /\ lastEv'.room = R
            /\ lastEv'.name = n
            /\ (Truthy(R) /\ Truthy(n)) =>
                  /\ ~SetHas(list, n)
                  /\ \A t \in Sockets \ {s} :
                        /\ socketRooms'[t] = socketRooms[t]
                        /\ data'[t] = data[t]
                        /\ IF Member(t, R)
                           THEN /\ Len(out'[t]) = 2
                                /\ out'[t][2] = [ev |-> "user-left",
                                                 username |-> n,
                                                 participants |-> list]
                           ELSE out'[t] = << >>
       ]_vars

\* C30 witness: a leave named the room and the session username of another
\* connection, which stays in the room, received user-left for its own name
\* and is no longer in the registry.
C30_Witness ==
    /\ lastEv.op = "end-session"
    /\ lastEv.res = "ok"
    /\ lastEv.roomIn = RoomX
    /\ lastEv.nameIn # Null
    /\ lastEv.nameIn # data[lastEv.sock].username
    /\ \E t \in Sockets \ {lastEv.sock} :
          /\ Member(t, RoomX)
          /\ data[t].username = lastEv.nameIn
          /\ Len(out[t]) = 2
          /\ out[t][2].username = data[t].username
          /\ ~SetHas(listParticipants(rooms, RoomX), data[t].username)

\* C31: a chat-message, file, typing, stop-typing, user-joined, user-left
\* or participants event of room R reaches only connections that are in R,
\* and a history replay holds only messages of the room being joined.
C31_RoomIsolation ==
    [][LET s == lastEv'.sock
           R == lastEv'.room
           roomEvents == {"chat-message", "file", "typing", "stop-typing",
                          "user-joined", "user-left", "participants"}
       IN  /\ lastEv'.op \in {"chat-message", "file", "typing", "stop-typing",
                              "end-session"} =>
                 \A t \in Sockets :
                    EventsOf(out', t, roomEvents) # {} =>
                       /\ connected'[t] = "open"
                       /\ SetHas(socketRooms'[t], R)
           /\ lastEv'.op = "join-room" =>
                 /\ \A t \in Sockets \ {s} :
                       out'[t] # << >> => Member(t, R)
                 /\ \A i \in EventsOf(out', s, {"chat-message"}) :
                       \E k \in 1..Len(store) :
                          /\ store[k].id = out'[s][i].id
                          /\ store[k].room_id = R
                 /\ EventsOf(out', s, roomEvents \ {"chat-message"}) = {}
           /\ lastEv'.op = "disconnecting" =>
                 /\ out'[s] = << >>
                 /\ \A t \in Sockets \ {s} :
                       Len(out'[t]) =
                          Cardinality({i \in 1..Len(socketRooms[s]) :
                                          Member(t, socketRooms[s][i])})
      ]_vars

\* C31 witness: a connection in room-Y only stayed without event while a
\* message to room-X reached the connection in room-X.
C31_Witness ==
    /\ lastEv.op = "chat-message"
    /\ lastEv.res = "ok"
    /\ lastEv.room = RoomX
    /\ \E t \in Sockets :
          /\ socketRooms[t] = <<RoomY>>
          /\ connected[t] = "open"
          /\ out[t] = << >>
    /\ \E t \in Sockets : Member(t, RoomX) /\ Len(out[t]) = 1

\* C32: the disconnect of a connection that has left the room of its
\* session, or that never joined, delivers no event and leaves the registry
\* as it was.
C32_DisconnectAfterLeaveSilent ==
    [][(/\ lastEv'.op = "disconnecting"
        /\ ~Member(lastEv'.sock, data[lastEv'.sock].roomId)) =>
        /\ out' = NoOut
        /\ rooms' = rooms
       ]_vars

====
